---------------------------- MODULE Spec2Model ----------------------------
(***************************************************************************)
(* Stock Monitor API (src/finance.js): three express handlers, one         *)
(* repeating timer per monitored symbol and an in-memory history per       *)
(* symbol, all running on the single-threaded Node.js event loop.          *)
(*                                                                         *)
(* One action is one run-to-completion segment of the event loop: a        *)
(* handler up to its first await (or to its return), a firing of a timer   *)
(* callback up to its await, or the continuation that runs when the        *)
(* awaited axios promise settles.                                          *)
(***************************************************************************)
EXTENDS Integers, Sequences, FiniteSets, TLC

(***************************************************************************)
(* Bounds of the model.                                                    *)
(***************************************************************************)
MaxTimers == 2      \* successful start-monitoring requests in one run
MaxFetches == 2     \* calls of fetchStockData in one run
InputTimers == 1    \* the same two, in the runs that try every request body
InputFetches == 1
LiveTimers == 1     \* the same two, in the runs with fair scheduling
LiveFetches == 2

(***************************************************************************)
(* JavaScript values that reach the handlers.  A string is the sequence of *)
(* its characters; a number n is stored as 2*n so that 1.5 is a value and  *)
(* Number.isInteger has something to reject.                               *)
(***************************************************************************)
Undefined == [t |-> "undefined"]
Null == [t |-> "null"]
Str(cs) == [t |-> "string", chars |-> cs]
Num(twice) == [t |-> "number", twice |-> twice]

Whitespace == {" "}

toUpperCase_Identity(cs) == cs

toUpperCase(cs) ==
  [i \in 1..Len(cs) |->
     CASE cs[i] = "a" -> "A"
       [] cs[i] = "b" -> "B"
       [] OTHER -> cs[i]]

RECURSIVE trimStart(_)
trimStart(cs) ==
  IF cs # <<>> /\ Head(cs) \in Whitespace THEN trimStart(Tail(cs)) ELSE cs

RECURSIVE trimEnd(_)
trimEnd(cs) ==
  IF cs # <<>> /\ cs[Len(cs)] \in Whitespace
  THEN trimEnd(SubSeq(cs, 1, Len(cs) - 1))
  ELSE cs

trim(cs) == trimEnd(trimStart(cs))

\* ToBoolean(v) = false
Falsy(v) ==
  \/ v.t \in {"undefined", "null"}
  \/ v.t = "string" /\ v.chars = <<>>
  \/ v.t = "number" /\ v.twice = 0

NumberIsInteger(v) == v.t = "number" /\ v.twice % 2 = 0

isValidNonNegativeInt_AnyNumber(value) == value.t = "number" /\ value.twice >= 0

isValidNonNegativeInt(value) == NumberIsInteger(value) /\ value.twice >= 0

badSymbol_NoTrim(symbol) == Falsy(symbol) \/ symbol.t # "string"

\* the test of lines 51 and 128
badSymbol(symbol) ==
  \/ Falsy(symbol)
  \/ symbol.t # "string"
  \/ trim(symbol.chars) = <<>>

\* the test of line 111 (no trim)
badQuerySymbol(symbol) == Falsy(symbol) \/ symbol.t # "string"

(***************************************************************************)
(* Line 68, (minutes * 60 + seconds) * 1000.  The model's integers are     *)
(* 32 bits wide and the product is not, so the millisecond count is kept   *)
(* in units of 500 ms: with numbers stored doubled that is                 *)
(* minutes.twice * 60 + seconds.twice, and no precision is lost.           *)
(***************************************************************************)
intervalMs(minutes, seconds) == minutes.twice * 60 + seconds.twice

(***************************************************************************)
(* setInterval(callback, after) of Node.js, called at line 89: a delay     *)
(* outside 1..TIMEOUT_MAX milliseconds is replaced by 1 millisecond.  The  *)
(* argument is in units of 500 ms, the result in milliseconds.             *)
(***************************************************************************)
TIMEOUT_MAX == 2147483647

setIntervalDelay(after) ==
  IF after >= 1 /\ after <= TIMEOUT_MAX \div 500 THEN after * 500 ELSE 1

(***************************************************************************)
(* Inputs of the requests and answers of the upstream.                     *)
(***************************************************************************)
GoodSymbols == { Str(<<"a">>), Str(<<"A">>), Str(<<"b">>) }

\* missing, not a string, empty, blank
BadSymbols == { Undefined, Num(5), Str(<<>>), Str(<<" ">>) }

\* <<minutes, seconds>>: 1m 1s and 35792m 0s
GoodIntervals == { <<Num(2), Num(2)>>, <<Num(2 * 35792), Num(0)>> }

\* <<minutes, seconds>>: -1m 0s, 0m 0s, 1.5m 0s, no minutes, seconds "1"
BadIntervals ==
  { <<Num(-2), Num(0)>>, <<Num(0), Num(0)>>, <<Num(3), Num(0)>>,
    <<Undefined, Num(2)>>, <<Num(0), Str(<<"1">>)>> }

\* bodies of the start-monitoring requests
StartRequests ==
  [symbol : GoodSymbols, interval : GoodIntervals]
    \cup [symbol : BadSymbols, interval : {<<Num(2), Num(2)>>}]
    \cup [symbol : {Str(<<"a">>)}, interval : BadIntervals]

\* symbol of the refresh requests
RefreshInputs == GoodSymbols \cup BadSymbols

\* symbol of the history requests
QueryInputs == GoodSymbols \cup { Undefined, Num(5), Str(<<>>) }

\* the well-formed requests only
ValidStartRequests == [symbol : GoodSymbols, interval : {<<Num(2), Num(2)>>}]

\* response.data of a successful axios.get: a quote, or the JSON body null
Quote(o, h, l, c, pc) ==
  [t |-> "object", o |-> o, h |-> h, l |-> l, c |-> c, pc |-> pc]
Payloads == { Quote(Num(2), Num(8), Num(0), Num(6), Num(4)), Null }

\* err.message of a rejected axios.get
ErrorMessages == { "Network Error" }

NullReadMessage == "Cannot read properties of null (reading 'o')"

(***************************************************************************)
(* State.                                                                  *)
(***************************************************************************)
VARIABLES
  stockHistory,    \* the object of line 11: key -> sequence of records
  monitoringJobs,  \* the object of line 12: key -> timer id
  timers,          \* every Timeout setInterval has created: id -> [symbol, delay]
  active,          \* ids of the timers that clearInterval has not cancelled
  fetches,         \* every call of fetchStockData, in the order issued:
                   \*   id -> [kind, symbol, timer, asked, after], where asked is
                   \*   the symbol as the refresh request spelled it and after
                   \*   the refreshes already answered when this one was issued
  inflight,        \* ids of the fetches whose axios promise is still pending
  responded,       \* ids of the refresh fetches answered with 200
  failed,          \* ids of the fetches that threw: axios.get rejected, or the
                   \*   body was null
  alive,           \* the process runs: no rejection has gone unhandled
  now,             \* the clock new Date() reads: one instant per record captured
  res              \* the HTTP response written by the step just taken

vars ==
  <<stockHistory, monitoringJobs, timers, active, fetches, inflight,
    responded, failed, alive, now, res>>

NoResponse == [kind |-> "none"]

Init ==
  /\ stockHistory = <<>>
  /\ monitoringJobs = <<>>
  /\ timers = <<>>
  /\ active = {}
  /\ fetches = <<>>
  /\ inflight = {}
  /\ responded = {}
  /\ failed = {}
  /\ alive = TRUE
  /\ now = 0
  /\ res = NoResponse

\* obj[key] || []
historyOf_NoDefault(obj, key) ==
  IF key \in DOMAIN obj THEN obj[key] ELSE <<Undefined>>

historyOf(obj, key) == IF key \in DOMAIN obj THEN obj[key] ELSE <<>>

\* obj[key] = value
Assign(obj, key, value) ==
  [k \in DOMAIN obj \cup {key} |-> IF k = key THEN value ELSE obj[k]]

\* Array.prototype.push
push_Unshift(list, record) == <<record>> \o list

push_Twice(list, record) == Append(Append(list, record), record)

push(list, record) == Append(list, record)

\* lines 79-81: cancel the timer registered for the key, if any
clearExisting_Leak(act, jobs, key) == act

clearExisting_All(act, jobs, key) == {}

clearExisting(act, jobs, key) ==
  IF key \in DOMAIN jobs THEN act \ {jobs[key]} ELSE act

\* lines 84-86 and 139-141: create the list if the key has none
initHistory_Reset(hist, key) == Assign(hist, key, <<>>)

initHistory(hist, key) ==
  IF key \in DOMAIN hist THEN hist ELSE Assign(hist, key, <<>>)

\* lines 33-41: the record built from response.data
quoteRecord(symbol, data, fetch, timestamp) ==
  [ symbol |-> symbol, open |-> data.o, high |-> data.h, low |-> data.l,
    current |-> data.c, previousClose |-> data.pc, timestamp |-> timestamp,
    fetch |-> fetch ]

ErrorBody(text) == [error |-> text]

Frame == UNCHANGED <<stockHistory, monitoringJobs, timers, active, fetches,
                     inflight, responded, failed, alive, now>>

(***************************************************************************)
(* POST /start-monitoring, lines 47-103.  The handler has no await: it     *)
(* runs to its return in one step.                                         *)
(***************************************************************************)
StartMonitoring(symbol, minutes, seconds) ==
  LET req == [symbol |-> symbol, minutes |-> minutes, seconds |-> seconds]
      reject(text) ==
        /\ res' = [kind |-> "start-monitoring", status |-> 400, req |-> req,
                   body |-> ErrorBody(text)]
        /\ Frame
  IN
  /\ alive
  /\ IF badSymbol(symbol)
     THEN reject("Symbol must be a non-empty string.")
     ELSE IF ~isValidNonNegativeInt(minutes) \/ ~isValidNonNegativeInt(seconds)
     THEN reject("Minutes and seconds must be valid non-negative integers.")
     ELSE IF intervalMs(minutes, seconds) <= 0
     THEN reject("Refresh interval must be greater than 0 seconds.")
     ELSE
       LET stockSymbol == toUpperCase(symbol.chars)
           id == Len(timers) + 1
       IN
       /\ Len(timers) < MaxTimers
       /\ active' = clearExisting(active, monitoringJobs, stockSymbol) \cup {id}
       /\ stockHistory' = initHistory(stockHistory, stockSymbol)
       /\ timers' = Append(timers,
                      [symbol |-> stockSymbol,
                       delay |-> setIntervalDelay(intervalMs(minutes, seconds))])
       /\ monitoringJobs' = Assign(monitoringJobs, stockSymbol, id)
       /\ res' = [kind |-> "start-monitoring", status |-> 200, req |-> req,
                  body |-> [message |-> <<"Started monitoring", stockSymbol,
                                          minutes.twice \div 2, seconds.twice \div 2>>]]
       /\ UNCHANGED <<fetches, inflight, responded, failed, alive, now>>

(***************************************************************************)
(* GET /history, lines 108-120.                                            *)
(***************************************************************************)
History(symbol) ==
  /\ alive
  /\ res' = IF badQuerySymbol(symbol)
            THEN [kind |-> "history", status |-> 400, req |-> [symbol |-> symbol],
                  body |-> ErrorBody("Symbol query parameter is required.")]
            ELSE [kind |-> "history", status |-> 200, req |-> [symbol |-> symbol],
                  body |-> [list |-> historyOf(stockHistory,
                                               toUpperCase(symbol.chars))]]
  /\ Frame

(***************************************************************************)
(* fetchStockData up to its await, lines 24-27: the request is on the wire *)
(* and the calling task is suspended.                                      *)
(***************************************************************************)
issueFetch_Blocking(kind, symbol, timer, asked) ==
  /\ inflight = {}
  /\ Len(fetches) < MaxFetches
  /\ fetches' = Append(fetches, [kind |-> kind, symbol |-> symbol,
                                 timer |-> timer, asked |-> asked,
                                 after |-> responded])
  /\ inflight' = inflight \cup {Len(fetches) + 1}

issueFetch(kind, symbol, timer, asked) ==
  /\ Len(fetches) < MaxFetches
  /\ fetches' = Append(fetches, [kind |-> kind, symbol |-> symbol,
                                 timer |-> timer, asked |-> asked,
                                 after |-> responded])
  /\ inflight' = inflight \cup {Len(fetches) + 1}

(***************************************************************************)
(* One firing of the callback of a live timer, lines 89-91.                *)
(***************************************************************************)
Tick(t) ==
  /\ alive
  /\ t \in active
  /\ issueFetch("tick", timers[t].symbol, t, Undefined)
  /\ res' = NoResponse
  /\ UNCHANGED <<stockHistory, monitoringJobs, timers, active, responded,
                 failed, alive, now>>

(***************************************************************************)
(* POST /refresh up to its await, lines 125-137.                           *)
(***************************************************************************)
Refresh(symbol) ==
  /\ alive
  /\ IF badSymbol(symbol)
     THEN /\ res' = [kind |-> "refresh", status |-> 400, req |-> [symbol |-> symbol],
                     body |-> ErrorBody("Symbol must be a non-empty string.")]
          /\ Frame
     ELSE /\ issueFetch("refresh", toUpperCase(symbol.chars), 0, symbol)
          /\ res' = NoResponse
          /\ UNCHANGED <<stockHistory, monitoringJobs, timers, active, responded,
                         failed, alive, now>>

\* lines 90 and 95-97: the callback's try/catch receives what the await throws,
\* so the promise of the callback never rejects
tickSurvives_NoCatch(ok) == ok

tickSurvives(ok) == TRUE

\* a continuation that would drop the record of a timer cancelled meanwhile
tickSettled_DropsStale(f, ok, data) ==
  LET stockSymbol == fetches[f].symbol IN
  /\ IF ok /\ fetches[f].timer \in active
     THEN /\ stockHistory' =
               Assign(stockHistory, stockSymbol,
                      push(stockHistory[stockSymbol],
                           quoteRecord(stockSymbol, data, f, now + 1)))
          /\ now' = now + 1
     ELSE UNCHANGED <<stockHistory, now>>
  /\ alive' = tickSurvives(ok)
  /\ res' = NoResponse
  /\ UNCHANGED responded

(***************************************************************************)
(* The continuation of a tick after its await: lines 92-97.                *)
(***************************************************************************)
tickSettled(f, ok, data) ==
  LET stockSymbol == fetches[f].symbol IN
  /\ IF ok
     THEN /\ stockHistory' =
               Assign(stockHistory, stockSymbol,
                      push(stockHistory[stockSymbol],
                           quoteRecord(stockSymbol, data, f, now + 1)))
          /\ now' = now + 1
     ELSE UNCHANGED <<stockHistory, now>>
  /\ alive' = tickSurvives(ok)
  /\ res' = NoResponse
  /\ UNCHANGED responded

(***************************************************************************)
(* The continuation of a refresh after its await: lines 139-151.           *)
(***************************************************************************)
refreshSettled(f, ok, data, message) ==
  LET stockSymbol == fetches[f].symbol
      req == [symbol |-> fetches[f].asked]
      record == quoteRecord(stockSymbol, data, f, now + 1)
  IN
  /\ UNCHANGED alive
  /\ IF ok
     THEN /\ stockHistory' =
               LET hist == initHistory(stockHistory, stockSymbol) IN
               Assign(hist, stockSymbol, push(hist[stockSymbol], record))
          /\ now' = now + 1
          /\ responded' = responded \cup {f}
          /\ res' = [kind |-> "refresh", status |-> 200, req |-> req, fetch |-> f,
                     body |-> record]
     ELSE /\ res' = [kind |-> "refresh", status |-> 500, req |-> req, fetch |-> f,
                     body |-> [error |-> "Failed to fetch stock data.",
                               details |-> message]]
          /\ UNCHANGED <<stockHistory, now, responded>>

settled(f, ok, data, message) ==
  /\ inflight' = inflight \ {f}
  /\ failed' = IF ok THEN failed ELSE failed \cup {f}
  /\ IF fetches[f].kind = "tick"
     THEN tickSettled(f, ok, data)
     ELSE refreshSettled(f, ok, data, message)
  /\ UNCHANGED <<monitoringJobs, timers, active, fetches>>

(***************************************************************************)
(* axios.get resolves: fetchStockData resumes at line 28.  Reading a field *)
(* of a null body throws, which the caller's catch receives like a         *)
(* rejection.                                                              *)
(***************************************************************************)
FetchResolve(f, data) ==
  /\ alive
  /\ f \in inflight
  /\ IF data = Null
     THEN settled(f, FALSE, data, NullReadMessage)
     ELSE settled(f, TRUE, data, "")

(***************************************************************************)
(* axios.get rejects: network error, timeout or non-2xx status.            *)
(***************************************************************************)
FetchReject(f, message) ==
  /\ alive
  /\ f \in inflight
  /\ settled(f, FALSE, Null, message)

\* the run is cut when it has installed maxTimers timers and issued maxFetches
\* fetches
within(maxTimers, maxFetches) ==
  /\ Len(timers') <= maxTimers
  /\ Len(fetches') <= maxFetches

NextWith(starts, refreshes, queries, maxTimers, maxFetches) ==
  \/ \E r \in starts :
       /\ StartMonitoring(r.symbol, r.interval[1], r.interval[2])
       /\ within(maxTimers, maxFetches)
  \/ \E symbol \in queries : History(symbol)
  \/ \E symbol \in refreshes :
       /\ Refresh(symbol)
       /\ within(maxTimers, maxFetches)
  \/ \E t \in 1..MaxTimers :
       /\ Tick(t)
       /\ within(maxTimers, maxFetches)
  \/ \E f \in 1..MaxFetches, data \in Payloads : FetchResolve(f, data)
  \/ \E f \in 1..MaxFetches, message \in ErrorMessages : FetchReject(f, message)

(***************************************************************************)
(* Spec: every interleaving of well-formed requests, ticks and settled     *)
(* fetches.                                                                *)
(***************************************************************************)
Next ==
  NextWith(ValidStartRequests, GoodSymbols, GoodSymbols, MaxTimers, MaxFetches)

Spec == Init /\ [][Next]_vars

(***************************************************************************)
(* InputSpec: every request body, well-formed or not, in shorter runs.     *)
(***************************************************************************)
InputNext ==
  NextWith(StartRequests, RefreshInputs, QueryInputs, InputTimers, InputFetches)

InputSpec == Init /\ [][InputNext]_vars

(***************************************************************************)
(* LiveSpec: the event loop keeps serving.  A live timer's callback is     *)
(* eventually called again (setInterval re-arms the timer whatever the     *)
(* callback did), and a fetch that stays pending is eventually answered    *)
(* with a quote; the upstream may still reject any fetch before that.      *)
(***************************************************************************)
LiveSymbols == { Str(<<"a">>), Str(<<"b">>) }

LiveStartRequests == [symbol : LiveSymbols, interval : {<<Num(2), Num(2)>>}]

\* a body the upstream answers a fetch with when it succeeds
someQuote == CHOOSE data \in Payloads : data # Null

LiveNext ==
  NextWith(LiveStartRequests, LiveSymbols, LiveSymbols, LiveTimers, LiveFetches)

Fairness ==
  /\ \A t \in 1..MaxTimers :
       WF_vars(Tick(t) /\ within(LiveTimers, LiveFetches))
  /\ \A f \in 1..MaxFetches : WF_vars(FetchResolve(f, someQuote))

LiveSpec == Init /\ [][LiveNext]_vars /\ Fairness

(***************************************************************************)
(* Properties.                                                             *)
(***************************************************************************)
Keys == { <<"A">>, <<"B">> }

\* the timers of a key that setInterval installed and clearInterval has not cancelled
liveTimers(key) == { t \in active : timers[t].symbol = key }

\* the timers ever installed for a key
installedTimers(key) == { t \in DOMAIN timers : timers[t].symbol = key }

IsPrefix(a, b) == Len(a) <= Len(b) /\ SubSeq(b, 1, Len(a)) = a

\* the ids a step adds to a log (fetches issued, timers installed)
issuedBy(old, new) == DOMAIN new \ DOMAIN old

\* C1: in every reachable state every symbol has zero or one live timer, and
\* a symbol that start-monitoring has served two or more times has exactly one.
C1_OneLiveTimerPerSymbol ==
  \A key \in Keys :
    /\ Cardinality(liveTimers(key)) <= 1
    /\ Cardinality(installedTimers(key)) >= 2 => Cardinality(liveTimers(key)) = 1

C1_Witness ==
  \E key \in Keys :
    /\ Cardinality(installedTimers(key)) >= 2
    /\ Cardinality(liveTimers(key)) = 1
    /\ \E f \in DOMAIN fetches : fetches[f].symbol = key

\* C2: a step that installs a timer cancels the symbol's previous timer in the
\* same step and runs no tick, and every tick that starts belongs to the timer
\* currently registered for its symbol, never to a replaced one.
C2_NoTickOfReplacedTimer ==
  [][ /\ \A f \in issuedBy(fetches, fetches') :
           fetches'[f].kind = "tick" =>
             /\ fetches'[f].symbol \in DOMAIN monitoringJobs
             /\ fetches'[f].timer = monitoringJobs[fetches'[f].symbol]
      /\ \A t \in issuedBy(timers, timers') :
           /\ liveTimers(timers'[t].symbol) \cap active' = {}
           /\ monitoringJobs'[timers'[t].symbol] = t
           /\ fetches' = fetches
    ]_vars

\* a tick of the second timer of a symbol has started
C2_Witness ==
  \E f \in DOMAIN fetches :
    /\ fetches[f].kind = "tick"
    /\ \E t \in DOMAIN timers :
         t < fetches[f].timer /\ timers[t].symbol = fetches[f].symbol

\* C3: every step leaves every symbol's history with its old contents as a
\* prefix: no list disappears, shrinks or reorders and no record changes.
C3_HistoryAppendOnly ==
  [][ \A key \in DOMAIN stockHistory :
        /\ key \in DOMAIN stockHistory'
        /\ IsPrefix(stockHistory[key], stockHistory'[key]) ]_vars

\* a list has grown twice, and a start-monitoring request came after its first
\* record
C3_Witness ==
  \E key \in DOMAIN stockHistory :
    /\ Len(stockHistory[key]) >= 2
    /\ key \in DOMAIN monitoringJobs

\* the keys whose list of records a step changes
changedKeys ==
  { key \in DOMAIN stockHistory' :
      stockHistory'[key] # historyOf(stockHistory, key) }

\* the step appends exactly the record of the settled fetch f to the list of key
appendsRecordOf(f, key) ==
  /\ fetches[f].symbol = key
  /\ Len(stockHistory'[key]) = Len(historyOf(stockHistory, key)) + 1
  /\ IsPrefix(historyOf(stockHistory, key), stockHistory'[key])
  /\ stockHistory'[key][Len(stockHistory'[key])].fetch = f

\* C4, as claimed: a tick runs to completion, so any step taken while the fetch
\* of a tick is pending is the step that settles that fetch.
C4_TickRunsToCompletion ==
  [][ \A f \in inflight : fetches[f].kind = "tick" => f \notin inflight' ]_vars

\* C4, amended: a tick suspends at its fetch and other callbacks run before its
\* append, but every append is one step of its own: a step changes the list of
\* at most one symbol, by adding at its end the one record of the one fetch
\* that the step settles.
C4_AppendsSerialized ==
  [][ /\ Cardinality(changedKeys) <= 1
      /\ \A key \in changedKeys :
           \E f \in inflight :
             /\ inflight' = inflight \ {f}
             /\ appendsRecordOf(f, key) ]_vars

\* a tick appended after a fetch issued later than its own had already appended
\* to the same list
C4_Witness ==
  \E key \in DOMAIN stockHistory :
    \E i, j \in DOMAIN stockHistory[key] :
      /\ i < j
      /\ fetches[stockHistory[key][j].fetch].kind = "tick"
      /\ stockHistory[key][j].fetch < stockHistory[key][i].fetch

\* C5, as claimed: the records of a list are in the order their fetches were
\* issued.
C5_IssueOrder ==
  \A key \in DOMAIN stockHistory :
    \A i, j \in DOMAIN stockHistory[key] :
      i < j => stockHistory[key][i].fetch < stockHistory[key][j].fetch

\* C5, amended: the records of a list are in the order their fetches completed,
\* that is in the order of their capture instants.
C5_CompletionOrder ==
  \A key \in DOMAIN stockHistory :
    \A i, j \in DOMAIN stockHistory[key] :
      i < j => stockHistory[key][i].timestamp < stockHistory[key][j].timestamp

\* a refresh and another fetch of the same symbol completed in the reverse of
\* the order they were issued in
C5_Witness ==
  \E key \in DOMAIN stockHistory :
    \E i, j \in DOMAIN stockHistory[key] :
      /\ i < j
      /\ fetches[stockHistory[key][i].fetch].kind = "refresh"
      /\ stockHistory[key][j].fetch < stockHistory[key][i].fetch
      /\ stockHistory[key][i].timestamp < stockHistory[key][j].timestamp

\* the key the requests address, written out for the symbols of the model
expectedKey(symbol) ==
  CASE symbol = Str(<<"a">>) -> <<"A">>
    [] symbol = Str(<<"A">>) -> <<"A">>
    [] symbol = Str(<<"b">>) -> <<"B">>
    [] OTHER -> <<>>

\* the place of the record of fetch f in a list, 0 when it has none
placeOf(list, f) ==
  IF \E i \in DOMAIN list : list[i].fetch = f
  THEN CHOOSE i \in DOMAIN list : list[i].fetch = f
  ELSE 0

\* the refreshes of a key that were answered with 200
answeredRefreshes(key) == { f \in responded : fetches[f].symbol = key }

\* C6: a history response holds the record of every refresh of its symbol that
\* was answered before, and when one refresh was issued only after another had
\* been answered, the record of the earlier one comes first in the list.
C6_SuccessiveRefreshesInOrder ==
  (res.kind = "history" /\ res.status = 200) =>
    LET list == res.body.list
        mine == answeredRefreshes(expectedKey(res.req.symbol))
    IN
    /\ \A f \in mine : placeOf(list, f) > 0
    /\ \A f, g \in mine :
         f \in fetches[g].after => placeOf(list, f) < placeOf(list, g)

\* a history response that holds the records of two successive refreshes
C6_Witness ==
  /\ res.kind = "history"
  /\ res.status = 200
  /\ \E f, g \in answeredRefreshes(expectedKey(res.req.symbol)) :
       /\ f \in fetches[g].after
       /\ placeOf(res.body.list, g) = 2

\* C7: a refresh answered with 200 has added exactly one record, at the end of
\* the list of the uppercased symbol and nowhere else, the record is in the
\* list when the response exists, and the body is that record.
C7_RefreshAppendsWhatItReturns ==
  [][ (res'.kind = "refresh" /\ res'.status = 200) =>
        LET key == expectedKey(res'.req.symbol) IN
        /\ key \in DOMAIN stockHistory'
        /\ stockHistory'[key] = Append(historyOf(stockHistory, key), res'.body)
        /\ res'.body.symbol = key
        /\ changedKeys = {key} ]_vars

\* a refresh spelled in lower case was answered with the record it appended
\* after an older record
C7_Witness ==
  /\ res.kind = "refresh"
  /\ res.status = 200
  /\ res.req.symbol = Str(<<"a">>)
  /\ Len(stockHistory[<<"A">>]) = 2
  /\ stockHistory[<<"A">>][2] = res.body

\* a symbol that is missing, not a string, or blank after trimming
symbolRejectable(symbol) ==
  \/ symbol.t \in {"undefined", "null"}
  \/ symbol.t # "string"
  \/ \A i \in DOMAIN symbol.chars : symbol.chars[i] = " "

\* a value that is not a non-negative integer
notNonNegativeInteger(v) ==
  \/ v.t # "number"
  \/ v.twice < 0
  \/ v.twice % 2 = 1

\* a start-monitoring body the claim says is rejected
startRejectable(req) ==
  \/ symbolRejectable(req.symbol)
  \/ notNonNegativeInteger(req.minutes)
  \/ notNonNegativeInteger(req.seconds)
  \/ (req.minutes.twice \div 2) * 60 + (req.seconds.twice \div 2) <= 0

\* what a rejected request must leave alone
nothingChanges ==
  UNCHANGED <<stockHistory, monitoringJobs, timers, active, fetches, inflight>>

\* what a request that only reads must leave alone
nothingChangesAtAll ==
  UNCHANGED <<stockHistory, monitoringJobs, timers, active, fetches, inflight,
              responded, failed, alive, now>>

\* C8: a start-monitoring request whose symbol is missing, not a string or
\* blank, whose minutes or seconds is not a non-negative integer, or whose
\* minutes*60+seconds is not positive is answered with 400, and a request
\* answered with 400 installs and cancels no timer and changes no history.
C8_StartRejectsBadInput ==
  [][ res'.kind = "start-monitoring" =>
        /\ startRejectable(res'.req) => res'.status = 400
        /\ res'.status = 400 => nothingChanges ]_vars

\* a request with a bad interval was rejected for a symbol that has a live
\* timer, and the timer is still live
C8_Witness ==
  /\ res.kind = "start-monitoring"
  /\ res.status = 400
  /\ ~symbolRejectable(res.req.symbol)
  /\ liveTimers(expectedKey(res.req.symbol)) # {}

\* C9, as claimed: every accepted start-monitoring request installs a timer
\* whose period is exactly minutes*60+seconds seconds, however large.
C9_PeriodIsExact ==
  [][ (res'.kind = "start-monitoring" /\ res'.status = 200) =>
        LET timer == timers'[Len(timers')]
            total == (res'.req.minutes.twice \div 2) * 60
                       + (res'.req.seconds.twice \div 2)
        IN
        /\ Len(timers') = Len(timers) + 1
        /\ timer.delay % 1000 = 0
        /\ timer.delay \div 1000 = total ]_vars

\* C10: a refresh whose fetch fails is answered with 500 and the failure's
\* message, appends nothing and leaves every timer installed; a refresh whose
\* symbol is missing, not a string or blank is answered with 400, issues no
\* fetch and changes nothing.
C10_RefreshFailures ==
  [][ /\ \A f \in inflight \ inflight' :
           (fetches[f].kind = "refresh" /\ stockHistory' = stockHistory) =>
             /\ res'.kind = "refresh"
             /\ res'.status = 500
      /\ (res'.kind = "refresh" /\ res'.status = 500) =>
           /\ res'.body.details \in ErrorMessages \cup {NullReadMessage}
           /\ UNCHANGED <<stockHistory, monitoringJobs, timers, active>>
      /\ (res'.kind = "refresh" /\ res'.status = 400) => nothingChanges
      /\ \A f \in issuedBy(fetches, fetches') :
           fetches'[f].kind = "refresh" => ~symbolRejectable(fetches'[f].asked)
      /\ (res'.kind = "refresh" /\ symbolRejectable(res'.req.symbol)) =>
           res'.status = 400 ]_vars

\* a refresh failed while its symbol had a live timer
C10_Witness ==
  /\ res.kind = "refresh"
  /\ res.status = 500
  /\ liveTimers(expectedKey(res.req.symbol)) # {}

\* the fetches a step settles
settledBy == inflight \ inflight'

\* the fetches of a timer
ticksOf(t) == { f \in DOMAIN fetches : fetches[f].kind = "tick" /\ fetches[f].timer = t }

\* C11: the step in which the fetch of a tick fails appends nothing, cancels
\* and installs no timer and leaves the process running, so every timer that
\* was live stays live; and the process is running in every reachable state.
C11_FailedTickIsCaught ==
  [][ /\ alive'
      /\ \A f \in settledBy :
           (fetches[f].kind = "tick" /\ f \in failed') =>
             UNCHANGED <<stockHistory, monitoringJobs, timers, active>> ]_vars

\* a tick failed and the same timer, still live, has fired again since
C11_Witness ==
  \E f \in failed :
    /\ fetches[f].kind = "tick"
    /\ fetches[f].timer \in active
    /\ \E g \in ticksOf(fetches[f].timer) : g > f
    /\ alive

\* C12: a history request with a string symbol is answered with 200 and
\* exactly the list stored under the uppercased symbol, the empty list when
\* there is none or when monitoring has not completed a tick yet, and it
\* changes no history and no job.
C12_HistoryReadsOnly ==
  [][ res'.kind = "history" =>
        /\ nothingChangesAtAll
        /\ res'.req.symbol \in GoodSymbols =>
             LET key == expectedKey(res'.req.symbol) IN
             /\ res'.status = 200
             /\ res'.body.list =
                  IF key \in DOMAIN stockHistory THEN stockHistory[key] ELSE <<>> ]_vars

\* a history request for a symbol that nothing was ever asked about, made
\* while another symbol is monitored
C12_Witness ==
  /\ res.kind = "history"
  /\ res.status = 200
  /\ res.body.list = <<>>
  /\ expectedKey(res.req.symbol) \notin DOMAIN stockHistory
  /\ monitoringJobs # <<>>

\* C13: a symbol for which start-monitoring has succeeded has exactly one live
\* timer in every later state, the one registered for it.
C13_NeverStopped ==
  \A key \in Keys :
    installedTimers(key) # {} =>
      /\ key \in DOMAIN monitoringJobs
      /\ liveTimers(key) = { monitoringJobs[key] }

\* two symbols monitored, one of them after a failed tick of the other
C13_Witness ==
  /\ \A key \in Keys : Cardinality(liveTimers(key)) = 1
  /\ \E f \in failed : fetches[f].kind = "tick" /\ fetches[f].timer = 1

\* C14: while the fetch of a tick is pending, however long, every live timer of
\* another symbol can fire (as long as the run may issue fetches at all), every
\* other pending fetch can be answered and appended, and the handlers answer.
C14_HungFetchBlocksNothing ==
  \A f \in inflight :
    fetches[f].kind = "tick" =>
      /\ \A t \in active :
           (timers[t].symbol # fetches[f].symbol /\ Len(fetches) < MaxFetches)
             => ENABLED Tick(t)
      /\ \A g \in inflight \ {f} : ENABLED FetchResolve(g, someQuote)
      /\ \A symbol \in GoodSymbols : ENABLED History(symbol)

\* the fetch of a tick is still pending, a tick of another symbol that fired
\* after it has appended its record, and a history request has returned it
C14_Witness ==
  \E f \in inflight :
    /\ fetches[f].kind = "tick"
    /\ \E key \in DOMAIN stockHistory :
         /\ key # fetches[f].symbol
         /\ \E i \in DOMAIN stockHistory[key] :
              /\ stockHistory[key][i].fetch > f
              /\ fetches[stockHistory[key][i].fetch].kind = "tick"
         /\ res.kind = "history"
         /\ res.status = 200
         /\ res.body.list = stockHistory[key]

\* C15: a step that installs a timer leaves the pending fetches pending, and a
\* tick whose fetch succeeds appends its record to its symbol's list whether or
\* not its timer has been replaced since the fetch was issued.
C15_ReplacementKeepsFetches ==
  [][ /\ timers' # timers => (inflight' = inflight /\ fetches' = fetches)
      /\ \A f \in settledBy :
           (fetches[f].kind = "tick" /\ f \notin failed') =>
             appendsRecordOf(f, fetches[f].symbol) ]_vars

\* the record of a tick of a replaced timer follows, in the list, the record of
\* a tick of the timer that replaced it
C15_Witness ==
  \E key \in DOMAIN stockHistory :
    \E i, j \in DOMAIN stockHistory[key] :
      LET f == stockHistory[key][i].fetch
          g == stockHistory[key][j].fetch
      IN
      /\ i < j
      /\ fetches[f].kind = "tick"
      /\ fetches[g].kind = "tick"
      /\ fetches[g].timer < fetches[f].timer
      /\ fetches[g].timer \notin active

\* the run can issue no further fetch and none for the key is pending
fetchesUsedUp(key) ==
  /\ Len(fetches) >= LiveFetches
  /\ \A f \in inflight : fetches[f].symbol # key

\* C16: under fair ticks and an upstream that answers, a symbol with a live job
\* and n records eventually has more than n, whatever number of its ticks
\* failed before, unless the run has used up the fetches it may issue.
C16_MonitoringContinues ==
  \A key \in Keys, n \in 0..LiveFetches :
    (liveTimers(key) # {} /\ Len(historyOf(stockHistory, key)) = n)
      ~> (Len(historyOf(stockHistory, key)) > n \/ fetchesUsedUp(key))

\* a tick appended a record after an earlier tick of the same symbol had failed
C16_Witness ==
  \E key \in DOMAIN stockHistory :
    \E i \in DOMAIN stockHistory[key] :
      \E f \in failed :
        /\ fetches[f].kind = "tick"
        /\ fetches[f].symbol = key
        /\ fetches[stockHistory[key][i].fetch].kind = "tick"
        /\ f < stockHistory[key][i].fetch

\* a key none of whose letters is in lower case
isUpperCase(key) == \A i \in DOMAIN key : key[i] \notin {"a", "b"}

\* C17: every key of the history store and of the job registry is in upper
\* case, and a request addresses the entry of its symbol in upper case
\* however the symbol is spelled: an accepted start-monitoring registers the
\* new timer there, a refresh appends there, a history request reads there.
C17_KeysAreUpperCase ==
  /\ \A key \in DOMAIN stockHistory \cup DOMAIN monitoringJobs : isUpperCase(key)
  /\ \A t \in DOMAIN timers : isUpperCase(timers[t].symbol)
  /\ (res.kind \in {"start-monitoring", "refresh", "history"} /\ res.status = 200) =>
       LET key == expectedKey(res.req.symbol) IN
       CASE res.kind = "start-monitoring" ->
              key \in DOMAIN monitoringJobs /\ monitoringJobs[key] = Len(timers)
         [] res.kind = "refresh" ->
              /\ key \in DOMAIN stockHistory
              /\ stockHistory[key] # <<>>
              /\ stockHistory[key][Len(stockHistory[key])] = res.body
         [] res.kind = "history" ->
              res.body.list =
                IF key \in DOMAIN stockHistory THEN stockHistory[key] ELSE <<>>

\* a history request spelled "a" has returned the record of a refresh spelled
\* "A" while the job started for the symbol is live
C17_Witness ==
  /\ res.kind = "history"
  /\ res.req.symbol = Str(<<"a">>)
  /\ res.status = 200
  /\ \E i \in DOMAIN res.body.list :
       fetches[res.body.list[i].fetch].asked = Str(<<"A">>)
  /\ liveTimers(<<"A">>) # {}

\* C18: an accepted start-monitoring request issues no fetch and leaves the
\* records of every list as they were, creating at most the empty list of its
\* own symbol; no record of the new timer exists until one of its ticks has
\* fired and its fetch has succeeded.
C18_StartFetchesNothing ==
  [][ (res'.kind = "start-monitoring" /\ res'.status = 200) =>
        LET key == expectedKey(res'.req.symbol) IN
        /\ fetches' = fetches
        /\ inflight' = inflight
        /\ DOMAIN stockHistory' = DOMAIN stockHistory \cup {key}
        /\ \A k \in DOMAIN stockHistory' :
             stockHistory'[k] =
               IF k \in DOMAIN stockHistory THEN stockHistory[k] ELSE <<>>
        /\ \A f \in DOMAIN fetches' :
             ~(fetches'[f].kind = "tick" /\ fetches'[f].timer = Len(timers')) ]_vars

\* monitoring was started for a symbol whose list already held a record
C18_Witness ==
  /\ res.kind = "start-monitoring"
  /\ res.status = 200
  /\ stockHistory[expectedKey(res.req.symbol)] # <<>>

\* the keys a step is for: the key of the start-monitoring request it answers,
\* of the fetch it issues (a refresh request or a tick) or of the fetch it
\* settles
stepKeys ==
  { key \in Keys :
      \/ res'.kind = "start-monitoring" /\ expectedKey(res'.req.symbol) = key
      \/ \E f \in issuedBy(fetches, fetches') : fetches'[f].symbol = key
      \/ \E f \in settledBy : fetches[f].symbol = key }

\* C19: a start-monitoring request, a refresh request, a tick or the
\* completion of a fetch is for one symbol, and it leaves the list, the live
\* timer and the registered job of every other symbol as they were.
C19_SymbolsAreIsolated ==
  [][ /\ Cardinality(stepKeys) <= 1
      /\ \A key \in Keys \ stepKeys :
           /\ historyOf(stockHistory', key) = historyOf(stockHistory, key)
           /\ (key \in DOMAIN stockHistory') = (key \in DOMAIN stockHistory)
           /\ liveTimers(key)' = liveTimers(key)
           /\ (key \in DOMAIN monitoringJobs') = (key \in DOMAIN monitoringJobs)
           /\ key \in DOMAIN monitoringJobs =>
                monitoringJobs'[key] = monitoringJobs[key] ]_vars

\* monitoring was started for B while A had a live timer and a record
C19_Witness ==
  /\ res.kind = "start-monitoring"
  /\ res.status = 200
  /\ expectedKey(res.req.symbol) = <<"B">>
  /\ liveTimers(<<"A">>) # {}
  /\ historyOf(stockHistory, <<"A">>) # <<>>

\* the fetches for a key whose fetchStockData call has returned a record
succeeded(key) ==
  { f \in DOMAIN fetches :
      f \notin inflight /\ f \notin failed /\ fetches[f].symbol = key }

\* C20: in every reachable state every record in the list of a key carries
\* that key as its symbol, the records of the list are those of the fetches
\* for the key (of ticks and of refreshes) that have succeeded, one record
\* each, and so the length of the list is the number of those fetches.
C20_OneRecordPerSuccessfulFetch ==
  /\ DOMAIN stockHistory \subseteq Keys
  /\ \A key \in Keys :
       LET list == historyOf(stockHistory, key) IN
       /\ \A i \in DOMAIN list : list[i].symbol = key
       /\ { list[i].fetch : i \in DOMAIN list } = succeeded(key)
       /\ Len(list) = Cardinality(succeeded(key))

\* a key holds the record of a tick and the record of a refresh, or one record
\* while another fetch for it has failed
C20_Witness ==
  \E key \in Keys :
    LET list == historyOf(stockHistory, key) IN
    \/ /\ Len(list) = 2
       /\ fetches[list[1].fetch].kind # fetches[list[2].fetch].kind
    \/ /\ Len(list) = 1
       /\ \E f \in failed : fetches[f].symbol = key

=============================================================================
